---- MODULE Spec2Model ----
(***************************************************************************)
(* Model of checador's SyncWorker (src/checador/sync.py): the background   *)
(* loop task, manual sync_now calls, the punch outbox they drain and the   *)
(* remote endpoint they post to.  An await that touches shared state (the  *)
(* outbox, the endpoint, a sleep) is an interleaving point; what runs      *)
(* between two of them is one atomic step.  The get_user lookups of one    *)
(* cycle read no state of the model, so they are taken together with the   *)
(* outbox read that precedes them.                                         *)
(* FingerprintMatcher.identify (src/checador/fingerprint.py) awaits nothing *)
(* and is one step of its own specification, IdSpec, over every gallery it *)
(* may be given.                                                           *)
(***************************************************************************)
EXTENDS Integers, Sequences, FiniteSets, TLC

\* ---------------------------------------------------------------- bounds
MaxPunches == 2          \* punches ever created in a behaviour
BatchLimit == 1          \* stands for limit=100 of get_unsynced_punches, scaled so that it binds
MaxTasks == 2            \* loop tasks alive at once (running, or cancelled and not yet ended)
StatusLimit == 1         \* stands for limit=1000 of get_status, scaled so that it binds

\* ------------------------------------------------- configuration defaults
sync_interval_seconds == 300
fallback_delay == 60                 \* the sleep of _sync_loop's "except Exception"
retry_max_attempts == 5
retry_backoff_base == 2

\* ------------------------------------------------------------ value sets
TaskIds == 1..MaxTasks               \* slots for the asyncio tasks running _sync_loop
Manual == 0                         \* the caller of a manual sync_now
Procs == TaskIds \cup {Manual}
NoTask == 0                         \* self.task is None
ServerUrl == "https://server"
Urls == {"", ServerUrl}
FailCodes == {500}                 \* the status codes other than 200 the endpoint answers with
Bodies == {"body"}                  \* response.text of a non-200 answer
NoError == <<>>                     \* sync_error is NULL
NoResponse == <<>>
TransportError == <<"ConnectError">> \* client.post raised, no response at all
OkResponse == <<200, "ok">>

VARIABLES
    enabled,        \* config.server.enabled
    url,            \* config.server.url
    punches,        \* the outbox: punch id p is punches[p], in creation order
    serverUp,       \* whether the endpoint currently accepts batches
    running,        \* SyncWorker.running
    task,           \* SyncWorker.task: the slot of the task start() created last, or NoTask
    cyc,            \* per caller of sync_now (loop task or manual): its position and locals
    scan,           \* one call of FingerprintMatcher.identify: its arguments and its result
    report,         \* one caller of SyncWorker.get_status: its position, locals and result
    adm             \* the admin API: active_tokens, the users and templates stored, and
                    \* per client its request in flight and the last response it got

vars == <<enabled, url, punches, serverUp, running, task, cyc, scan, report, adm>>

\* ------------------------------------------------------- identification
MaxTemplates == 3                   \* templates ever enrolled
match_threshold == 40               \* config.fingerprint.match_threshold
TemplateIds == 1..MaxTemplates      \* ids are given in creation order
NoTemplate == 0                     \* best_template_id is None
Users == {"U1", "U2"}
None == <<>>                        \* what match_fingerprints and identify return for "nothing"
Some(score) == <<score>>            \* an int returned by match_fingerprints
Scores == {0, match_threshold - 1, match_threshold, match_threshold + 1, match_threshold + 2}
Outcomes == {None} \cup {Some(s) : s \in Scores}
Thresholds == {0 - 1, 0, match_threshold}   \* values config.toml may give match_threshold
NoScan == [pc |-> "idle", threshold |-> match_threshold, gallery |-> <<>>, result |-> None]

\* ------------------------------------------------------------ admin API
enrollment_samples == 3             \* config.fingerprint.enrollment_samples
min_quality_score == 20             \* config.fingerprint.min_quality_score
Tokens == {"t1", "t2"}              \* values of secrets.token_urlsafe(32)
Codes == {"A", "B"}                 \* employee codes
Qualities == {min_quality_score - 5, min_quality_score, min_quality_score + 5}
MaxStored == enrollment_samples + 1 \* templates ever stored
UserIdArgs == 1..(Cardinality(Codes) + 1)   \* user_id arguments: the ids in use and one more
NoResp == [op |-> "none", status |-> "none", success |-> FALSE, message |-> "",
           quality |-> 0, user_id |-> 0, token |-> ""]
IdleRequest == [pc |-> "idle", token |-> "", employee_code |-> "", user_id |-> 0,
                quality |-> 0, resp |-> NoResp]
NoUser == 0                         \* db.get_user / get_user_by_code returning None
NoAdmin == [active_tokens |-> {}, users |-> <<>>, templates |-> <<>>, req |-> <<>>]

\* get_status: no call yet; "read" after its outbox read; "returned" with its dict
NoReport == [pc |-> "idle", unsynced |-> <<>>, result |-> <<>>]

\* ------------------------------------------------------------- helpers
Min(a, b) == IF a < b THEN a ELSE b

RECURSIVE Pow(_, _)
Pow(b, e) == IF e = 0 THEN 1 ELSE b * Pow(b, e - 1)

Range(s) == {s[k] : k \in 1..Len(s)}

PunchIds == 1..Len(punches)

\* A caller is inside a cycle from its outbox read to its return.
InCycle(c) == cyc[c].pc \in {"posting", "responded", "marking"}

\* The locals of one caller.  pc: "none" (no task in this slot: never created, or
\* ended), "top" (task created, not yet run), "idle" (manual caller outside
\* sync_now), "sleeping", "cancelled" (task.cancel() was called and CancelledError
\* is not yet raised in the task), or a position inside sync_now.  retry_count and
\* sleep (seconds of the asyncio.sleep the loop is in) are _sync_loop's; ret is what
\* the last sync_now returned ("none", "True", "False").  solo and consec are
\* history: whether the cycle has so far run without overlapping another, and the
\* consecutive failed cycles (saturating at retry_max_attempts + 1).  fault is
\* history too: the last sync_now ended because a collaborator other than the HTTP
\* client raised.
Fresh(pc) == [pc |-> pc, batch |-> <<>>, i |-> 0, payload |-> {}, resp |-> NoResponse,
              solo |-> TRUE, ret |-> "none", retry_count |-> 0, sleep |-> 0, consec |-> 0,
              fault |-> FALSE]

\* PunchOutbox.listUnsynced(limit): the oldest `limit` punches not yet synced
\* (status unsynced or error), oldest first.
RECURSIVE Scan(_, _, _)
Scan(ps, p, limit) ==
    IF p > Len(ps) \/ limit = 0 THEN <<>>
    ELSE IF ps[p].status # "synced" THEN <<p>> \o Scan(ps, p + 1, limit - 1)
    ELSE Scan(ps, p + 1, limit)

get_unsynced_punches(ps, limit) == Scan(ps, 1, limit)

\* PunchOutbox.markSynced(ids).  No operation reads the error message of a synced
\* punch; it is modelled as cleared.
mark_punches_synced(ps, ids) ==
    [p \in 1..Len(ps) |->
        IF p \in ids THEN [ps[p] EXCEPT !.status = "synced", !.err = NoError] ELSE ps[p]]

\* PunchOutbox.markError(id, message)
mark_punch_sync_error(ps, id, error) ==
    [ps EXCEPT ![id].status = "error", ![id].err = error]

\* ------------------------------------------------ decisions of the code
\* _sync_loop line 61
next_retry_count(r) == Min(r + 1, retry_max_attempts)

backoff_times(r) == retry_backoff_base * r

\* _sync_loop line 62
backoff(r) == Pow(retry_backoff_base, r)

is_success_created(resp) == resp[1] = 201

\* sync_now line 132
is_success(resp) == resp[1] = 200

\* sync_now line 134: punch_ids = [p.id for p in punches]
synced_punch_ids(c) == Range(cyc[c].batch)

error_detail_status_only(resp) == <<resp[1], "">>

\* sync_now line 139: f"Server returned {response.status_code}: {response.text}"
error_detail(resp) == <<resp[1], resp[2]>>

start_ignores_enabled == ~running

start_ignores_running == enabled

\* start lines 27-33: whether start() goes on to create a task
start_proceeds == enabled /\ ~running

cancel_forgotten(t) == FALSE

\* stop lines 42-43: task.cancel() requests cancellation of a task that has not ended
cancel_requested(t) == t # NoTask /\ cyc[t].pc # "none"

no_punches_never(batch) == FALSE

\* sync_now line 91: if not punches
no_punches(batch) == batch = <<>>

\* ---------------------------------------------------------------- Init
Init ==
    /\ enabled \in BOOLEAN
    /\ url \in Urls
    /\ punches = <<>>
    /\ serverUp \in BOOLEAN
    /\ running = FALSE
    /\ task = NoTask
    /\ cyc = [c \in Procs |-> IF c = Manual THEN Fresh("idle") ELSE Fresh("none")]
    /\ scan = NoScan
    /\ report = NoReport
    /\ adm = NoAdmin

\* ------------------------------------------------------- sync_now steps
\* The locals of caller c after sync_now returned `ok`; for a loop task this
\* includes lines 55-64 of _sync_loop, up to the sleep.
Returned(c, ok) ==
    LET r == IF ok THEN 0 ELSE next_retry_count(cyc[c].retry_count)
        base == [Fresh(IF c = Manual THEN "idle" ELSE "sleeping")
                    EXCEPT !.ret = IF ok THEN "True" ELSE "False"]
    IN  IF c = Manual THEN base
        ELSE [base EXCEPT !.retry_count = r,
                          !.sleep = IF ok THEN sync_interval_seconds ELSE backoff(r),
                          !.consec = IF ok THEN 0
                                     ELSE Min(cyc[c].consec + 1, retry_max_attempts + 1)]

\* sync_now lines 79-89: the configuration checks, then the outbox read is issued.
Entered(c) ==
    IF ~enabled THEN Returned(c, TRUE)
    ELSE IF url = "" THEN Returned(c, TRUE)
    ELSE [cyc[c] EXCEPT !.pc = "reading", !.ret = "none", !.sleep = 0]

\* A manual call of sync_now.
ManualSyncNow ==
    /\ cyc[Manual].pc = "idle"
    /\ cyc' = [cyc EXCEPT ![Manual] = Entered(Manual)]
    /\ UNCHANGED <<enabled, url, punches, serverUp, running, task, scan, report, adm>>

\* _sync_loop lines 50-53: the task runs for the first time or its sleep ends, it
\* tests self.running and calls sync_now.
LoopBegin(t) ==
    /\ cyc[t].pc \in {"top", "sleeping"}
    /\ cyc' = [cyc EXCEPT ![t] = IF running THEN Entered(t) ELSE Fresh("none")]
    /\ UNCHANGED <<enabled, url, punches, serverUp, running, task, scan, report, adm>>

\* sync_now lines 89-130: get_unsynced_punches(limit) returns; for each punch of a
\* non-empty batch get_user finds the user or not (lines 100-102), and client.post
\* is issued with the punches whose user was found.
ReadOutbox(c) ==
    /\ cyc[c].pc = "reading"
    /\ LET batch == get_unsynced_punches(punches, BatchLimit)
           others == {d \in Procs \ {c} : InCycle(d)}
       IN  IF no_punches(batch)
           THEN cyc' = [cyc EXCEPT ![c] = Returned(c, TRUE)]
           ELSE \E payload \in SUBSET Range(batch) :
                  cyc' = [d \in Procs |->
                            IF d = c THEN [cyc[c] EXCEPT !.pc = "posting", !.batch = batch,
                                                         !.payload = payload,
                                                         !.solo = (others = {})]
                            ELSE IF d \in others THEN [cyc[d] EXCEPT !.solo = FALSE]
                            ELSE cyc[d]]
    /\ UNCHANGED <<enabled, url, punches, serverUp, running, task, scan, report, adm>>

\* The endpoint answers the request in flight: it accepts the batch (200), rejects it
\* with another status, or the request ends in a transport error.  The payload of a
\* request that was not accepted is read by nothing afterwards and is dropped.
EndpointAnswer(c) ==
    /\ cyc[c].pc = "posting"
    /\ \/ /\ serverUp
          /\ cyc' = [cyc EXCEPT ![c].pc = "responded", ![c].resp = OkResponse]
       \/ /\ ~serverUp
          /\ \E code \in FailCodes, body \in Bodies :
                cyc' = [cyc EXCEPT ![c].pc = "responded", ![c].resp = <<code, body>>,
                                   ![c].payload = {}]
       \/ /\ ~serverUp
          /\ cyc' = [cyc EXCEPT ![c].pc = "responded", ![c].resp = TransportError,
                                ![c].payload = {}]
    /\ UNCHANGED <<enabled, url, punches, serverUp, running, task, scan, report, adm>>

\* sync_now lines 132-150: the caller resumes with the outcome of client.post.
ApplyResponse(c) ==
    /\ cyc[c].pc = "responded"
    /\ IF cyc[c].resp = TransportError
       THEN /\ cyc' = [cyc EXCEPT ![c] = Returned(c, FALSE)]
            /\ UNCHANGED punches
       ELSE IF is_success(cyc[c].resp)
       THEN /\ punches' = mark_punches_synced(punches, synced_punch_ids(c))
            /\ cyc' = [cyc EXCEPT ![c] = Returned(c, TRUE)]
       ELSE /\ cyc' = [cyc EXCEPT ![c].pc = "marking", ![c].i = 1]
            /\ UNCHANGED punches
    /\ UNCHANGED <<enabled, url, serverUp, running, task, scan, report, adm>>

\* sync_now lines 143-146 for one punch of the batch; after the last one, return False.
MarkError(c) ==
    /\ cyc[c].pc = "marking"
    /\ punches' = mark_punch_sync_error(punches, cyc[c].batch[cyc[c].i],
                                        error_detail(cyc[c].resp))
    /\ cyc' = IF cyc[c].i = Len(cyc[c].batch)
              THEN [cyc EXCEPT ![c] = Returned(c, FALSE)]
              ELSE [cyc EXCEPT ![c].i = @ + 1]
    /\ UNCHANGED <<enabled, url, serverUp, running, task, scan, report, adm>>

\* The exception of a failed collaborator leaves sync_now uncaught: the loop's handler
\* (lines 68-70) logs it and sleeps 60 s, the retry counter is not touched; a manual
\* caller gets the exception.
Uncaught(c) ==
    IF c = Manual THEN [Fresh("idle") EXCEPT !.ret = "raised", !.fault = TRUE]
    ELSE [Fresh("sleeping") EXCEPT !.ret = "raised", !.fault = TRUE,
                                   !.retry_count = cyc[c].retry_count,
                                   !.consec = cyc[c].consec,
                                   !.sleep = fallback_delay]

\* sync_now lines 148-150: an exception raised inside the try is logged and sync_now
\* returns False.
Caught(c) == [Returned(c, FALSE) EXCEPT !.fault = TRUE]

\* A storage call of the cycle raises: get_unsynced_punches or get_user (lines 89,
\* 100), mark_punches_synced (line 135) or mark_punch_sync_error (line 144).  The call
\* that raised has written nothing.
CollaboratorFails(c) ==
    /\ \/ cyc[c].pc \in {"reading", "marking"}
       \/ cyc[c].pc = "responded" /\ cyc[c].resp # TransportError /\ is_success(cyc[c].resp)
    /\ cyc' = [cyc EXCEPT ![c] = Caught(c)]
    /\ UNCHANGED <<enabled, url, punches, serverUp, running, task, scan, report, adm>>

\* ------------------------------------------------------- start and stop
\* start(): lines 25-37.  The new task takes the first free slot.
Start ==
    /\ start_proceeds => \E t \in TaskIds : cyc[t].pc = "none"
    /\ IF start_proceeds
       THEN LET t == CHOOSE x \in TaskIds :
                        /\ cyc[x].pc = "none"
                        /\ \A y \in TaskIds : cyc[y].pc = "none" => x <= y
            IN  /\ running' = TRUE
                /\ task' = t
                /\ cyc' = [cyc EXCEPT ![t] = Fresh("top")]
       ELSE UNCHANGED <<running, task, cyc>>
    /\ UNCHANGED <<enabled, url, punches, serverUp, scan, report, adm>>

\* stop(): lines 39-44.  A cancelled task does nothing more than end, so its locals
\* are dropped.
Stop ==
    /\ running' = FALSE
    /\ cyc' = IF cancel_requested(task)
              THEN [cyc EXCEPT ![task] = Fresh("cancelled")]
              ELSE cyc
    /\ UNCHANGED <<enabled, url, punches, serverUp, task, scan, report, adm>>

\* The cancelled task is resumed: CancelledError is raised at its await.  Inside the
\* try of _sync_loop it is caught at line 66 (sync_now's "except Exception" does not
\* catch it) and the loop breaks; the task ends either way.
DeliverCancel(t) ==
    /\ cyc[t].pc = "cancelled"
    /\ cyc' = [cyc EXCEPT ![t] = Fresh("none")]
    /\ UNCHANGED <<enabled, url, punches, serverUp, running, task, scan, report, adm>>

\* ---------------------------------------------------------- environment
\* Next takes the local storage as reliable; FaultNext, below, lets its calls raise.
\* An identification succeeds and appends a punch.
CreatePunch ==
    /\ Len(punches) < MaxPunches
    /\ punches' = Append(punches, [status |-> "unsynced", err |-> NoError])
    /\ UNCHANGED <<enabled, url, serverUp, running, task, cyc, scan, report, adm>>

EndpointFlip ==
    /\ serverUp' = ~serverUp
    /\ UNCHANGED <<enabled, url, punches, running, task, cyc, scan, report, adm>>

Next ==
    \/ ManualSyncNow
    \/ \E t \in TaskIds : LoopBegin(t)
    \/ \E c \in Procs : ReadOutbox(c)
    \/ \E c \in Procs : EndpointAnswer(c)
    \/ \E c \in Procs : ApplyResponse(c)
    \/ \E c \in Procs : MarkError(c)
    \/ Start
    \/ Stop
    \/ \E t \in TaskIds : DeliverCancel(t)
    \/ CreatePunch
    \/ EndpointFlip

Spec == Init /\ [][Next]_vars

\* ================================================================ claims
IsRejected(resp) == Len(resp) = 2 /\ resp[1] # 200

\* A storage call of caller c's cycle raises in this step.
Raised(c) ==
    /\ cyc[c].pc \in {"reading", "responded", "marking"}
    /\ cyc'[c].pc \in {"idle", "sleeping", "none"}
    /\ cyc'[c].fault

\* Caller c's sync_now returns in this step, no storage call having raised (a
\* cancelled task does not return).
Returns(c) ==
    /\ cyc[c].pc \in {"reading", "responded", "marking"}
    /\ cyc'[c].pc \in {"idle", "sleeping"}
    /\ ~cyc'[c].fault

NextRead(ps) == Range(get_unsynced_punches(ps, BatchLimit))

\* C1: when a cycle's batch is accepted (HTTP 200), exactly the punches included in
\* the payload become synced; a punch of the batch left out of the payload (its user
\* was not resolved) keeps its status, is not synced, and is read by the next cycle.
C1_AcceptedBatchSyncsExactlyPayload ==
    [][\A c \in Procs :
          (Returns(c) /\ cyc[c].pc = "responded" /\ cyc[c].resp = OkResponse) =>
              /\ \A p \in cyc[c].payload : punches'[p].status = "synced"
              /\ \A p \in PunchIds :
                    (punches[p].status # "synced" /\ punches'[p].status = "synced")
                        => p \in cyc[c].payload
              /\ \A p \in Range(cyc[c].batch) \ cyc[c].payload :
                    /\ punches'[p] = punches[p]
                    /\ cyc[c].solo => punches'[p].status # "synced" /\ p \in NextRead(punches')
      ]_vars

\* C2: a punch marked error is still selected by the unsynced read, and a punch stops
\* being selectable (becomes synced) only in a step that applies an accepted (200)
\* response whose payload contained it: no undelivered punch becomes unselectable.
C2_ErrorIsNoDeadEnd ==
    [][/\ \A p \in PunchIds :
            punches[p].status = "error" => p \in Range(get_unsynced_punches(punches, Len(punches)))
       /\ \A p \in PunchIds :
            (punches[p].status # "synced" /\ punches'[p].status = "synced") =>
                \E c \in Procs : /\ cyc[c].pc = "responded"
                                 /\ cyc[c].resp = OkResponse
                                 /\ p \in cyc[c].payload
      ]_vars

\* The event loop resumes every task whose await has completed: a sleep ends, the
\* outbox answers, and client.post ends with a response or, after its 30 s timeout,
\* with an error.
LoopFairness ==
    \A t \in TaskIds :
        /\ WF_vars(LoopBegin(t))
        /\ WF_vars(ReadOutbox(t))
        /\ WF_vars(EndpointAnswer(t))
        /\ WF_vars(ApplyResponse(t))
        /\ WF_vars(MarkError(t))

\* The behaviours in which stop() is never called and no storage call raises.
LiveNext ==
    \/ ManualSyncNow
    \/ \E t \in TaskIds : LoopBegin(t)
    \/ \E c \in Procs : ReadOutbox(c)
    \/ \E c \in Procs : EndpointAnswer(c)
    \/ \E c \in Procs : ApplyResponse(c)
    \/ \E c \in Procs : MarkError(c)
    \/ Start
    \/ CreatePunch
    \/ EndpointFlip

LiveSpec == Init /\ [][LiveNext]_vars /\ LoopFairness

\* A punch of the outbox becomes synced only in a step that applies an accepted
\* response to a batch holding it, and no punch leaves the outbox.
NothingDropped ==
    [][/\ Len(punches') >= Len(punches)
       /\ \A p \in PunchIds :
            (punches[p].status # "synced" /\ punches'[p].status = "synced") =>
                \E c \in Procs : /\ cyc[c].pc = "responded"
                                 /\ cyc[c].resp = OkResponse
                                 /\ p \in Range(cyc[c].batch)
      ]_vars

EventuallySynced ==
    \A p \in 1..MaxPunches :
        (Len(punches) >= p) ~> (Len(punches) >= p /\ punches[p].status = "synced")

\* C3 as stated: once the worker keeps running and the endpoint keeps accepting, every
\* punch created is eventually synced, and nothing is dropped meanwhile.
C3_EventualDelivery_AsStated ==
    /\ (<>[](running /\ serverUp)) => EventuallySynced
    /\ NothingDropped

\* C3 amended: the same, for a worker whose server URL is configured.
C3_EventualDelivery ==
    /\ (url # "" /\ <>[](running /\ serverUp)) => EventuallySynced
    /\ NothingDropped

C3_Witness ==
    /\ url # ""
    /\ running
    /\ serverUp
    /\ Len(punches) = MaxPunches
    /\ \A p \in PunchIds : punches[p].status = "synced"
    /\ cyc[task].pc = "sleeping"
    /\ cyc[task].ret = "True"

\* C4: a punch that is synced stays synced in every step.
C4_SyncedStaysSynced ==
    [][\A p \in PunchIds : punches[p].status = "synced" => punches'[p].status = "synced"]_vars

\* C5: at most one caller of sync_now is between its unsynced read and its return.
C5_CyclesMutuallyExclusive ==
    \A c, d \in Procs : (InCycle(c) /\ InCycle(d)) => c = d

C7_TransportErrorMarksError ==
    [][\A c \in Procs :
          (Returns(c) /\ cyc[c].pc = "responded" /\ cyc[c].resp = TransportError) =>
              /\ cyc'[c].ret = "False"
              /\ \A p \in Range(cyc[c].batch) :
                    punches'[p].status = "error" /\ punches'[p].err # NoError
      ]_vars

\* C8: the retry counter stays within 0..retry_max_attempts; a loop sleeping after its
\* k-th consecutive failed cycle sleeps retry_backoff_base ^ min(k, retry_max_attempts)
\* seconds; a loop sleeping after a successful cycle has counter 0 and sleeps
\* sync_interval_seconds.
C8_BackoffSequence ==
    \A t \in TaskIds :
        /\ cyc[t].retry_count \in 0..retry_max_attempts
        /\ (cyc[t].pc = "sleeping" /\ cyc[t].ret = "False") =>
              /\ cyc[t].consec >= 1
              /\ cyc[t].retry_count = Min(cyc[t].consec, retry_max_attempts)
              /\ cyc[t].sleep = Pow(retry_backoff_base, Min(cyc[t].consec, retry_max_attempts))
        /\ (cyc[t].pc = "sleeping" /\ cyc[t].ret = "True") =>
              /\ cyc[t].consec = 0
              /\ cyc[t].retry_count = 0
              /\ cyc[t].sleep = sync_interval_seconds
        /\ (cyc[t].pc \in {"reading", "posting", "responded", "marking"}) =>
              cyc[t].retry_count = Min(cyc[t].consec, retry_max_attempts)

C8_Witness ==
    \E t \in TaskIds :
        /\ cyc[t].pc = "sleeping"
        /\ cyc[t].consec = retry_max_attempts + 1
        /\ cyc[t].sleep = 32

\* C9: with sync disabled no loop task is ever created, running stays False, a manual
\* sync_now never reads the outbox or posts and returns True, and every punch keeps
\* the status it was created with.
C9_DisabledTouchesNothing ==
    ~enabled =>
        /\ ~running
        /\ task = NoTask
        /\ \A t \in TaskIds : cyc[t].pc = "none"
        /\ cyc[Manual].pc = "idle"
        /\ cyc[Manual].ret \in {"none", "True"}
        /\ \A p \in PunchIds : punches[p] = [status |-> "unsynced", err |-> NoError]

C9_Witness ==
    /\ ~enabled
    /\ Len(punches) = MaxPunches
    /\ cyc[Manual].ret = "True"

\* C10: stop() changes no punch and requests the cancellation of the task whatever it
\* is doing; a task that is not the running worker's task can only end, and only the
\* running worker's task begins a cycle.
C10_StopEffective ==
    [][/\ (running /\ ~running') =>
              /\ punches' = punches
              /\ task # NoTask /\ cyc[task].pc # "none" => cyc'[task].pc = "cancelled"
       /\ \A t \in TaskIds :
              /\ (cyc[t].pc # "none" /\ ~(running /\ task = t)) =>
                    /\ cyc[t].pc = "cancelled"
                    /\ cyc'[t] # cyc[t] => cyc'[t].pc = "none" /\ punches' = punches
              /\ (cyc[t].pc \in {"top", "sleeping"} /\ cyc'[t].pc \notin {"top", "sleeping", "cancelled"})
                    => running /\ task = t
      ]_vars

C10_Witness ==
    /\ ~running
    /\ task # NoTask
    /\ cyc[task].pc = "cancelled"
    /\ \E p \in PunchIds : punches[p].status = "error"
    /\ \E p \in PunchIds : punches[p].status = "unsynced"

\* ------------------------------------------------- failing storage calls
\* The behaviours in which stop() is never called and any storage call may raise.
FaultNext ==
    \/ ManualSyncNow
    \/ \E t \in TaskIds : LoopBegin(t)
    \/ \E c \in Procs : ReadOutbox(c)
    \/ \E c \in Procs : EndpointAnswer(c)
    \/ \E c \in Procs : ApplyResponse(c)
    \/ \E c \in Procs : MarkError(c)
    \/ \E c \in Procs : CollaboratorFails(c)
    \/ Start
    \/ CreatePunch
    \/ EndpointFlip

FaultSpec == Init /\ [][FaultNext]_vars

\* C11: stop() does not abort a cycle whose request is in flight: a task that has
\* posted its batch is not cancelled before the outcome of the request is applied, so
\* an accepted batch is never left unsynced by stop().
C11_StopLetsRequestFinish ==
    [][\A t \in TaskIds :
          (cyc[t].pc \in {"posting", "responded"}) => cyc'[t].pc # "cancelled"
      ]_vars

\* C12: when a storage call raises during a cycle of the loop, the loop sleeps the
\* fixed fallback delay instead of retry_backoff_base ^ retry_count, and the failure
\* is counted by the retry counter.
C12_InternalErrorFallbackDelay ==
    [][\A t \in TaskIds :
          Raised(t) =>
              /\ cyc'[t].pc = "sleeping"
              /\ cyc'[t].sleep = fallback_delay
              /\ cyc'[t].retry_count = next_retry_count(cyc[t].retry_count)
      ]_vars

\* C13: a sync_now that reads an empty unsynced set returns True, posts nothing and
\* changes no punch, so that the next call reads the same empty set; in the loop the
\* retry counter is then 0 and the sleep is the normal interval.
C13_EmptySetIsNoOp ==
    [][\A c \in Procs :
          (/\ cyc[c].pc = "reading"
           /\ get_unsynced_punches(punches, BatchLimit) = <<>>
           /\ cyc'[c].pc \notin {"reading", "cancelled"}
           /\ ~Raised(c)) =>
              /\ cyc'[c].pc = IF c = Manual THEN "idle" ELSE "sleeping"
              /\ cyc'[c].ret = "True"
              /\ cyc'[c].retry_count = 0
              /\ c # Manual => cyc'[c].sleep = sync_interval_seconds
              /\ punches' = punches
              /\ get_unsynced_punches(punches', BatchLimit) = <<>>
      ]_vars

C13_Witness ==
    /\ enabled
    /\ url # ""
    /\ punches = <<>>
    /\ cyc[Manual].pc = "idle"
    /\ cyc[Manual].ret = "True"
    /\ \E t \in TaskIds : /\ cyc[t].pc = "sleeping"
                         /\ cyc[t].ret = "True"
                         /\ cyc[t].sleep = sync_interval_seconds

\* C14: a failing collaborator (a storage call that raises, a request that ends in a
\* transport error) makes sync_now return False, not raise; the loop task then sleeps
\* and is still alive, and while stop() has not been called the running worker's task
\* never ends.
C14_FailuresNeverFatal ==
    [][/\ \A c \in Procs :
            (\/ Raised(c)
             \/ cyc[c].pc = "responded" /\ cyc[c].resp = TransportError /\ cyc'[c].pc # "responded") =>
                /\ cyc'[c].ret = "False"
                /\ cyc'[c].pc = IF c = Manual THEN "idle" ELSE "sleeping"
                /\ c # Manual => cyc'[c].sleep > 0
                /\ running' = running
       /\ running => task # NoTask /\ cyc[task].pc \notin {"none", "cancelled"}
       /\ \A t \in TaskIds : cyc[t].pc # "none" => cyc'[t].pc # "none"
      ]_vars

C14_Witness ==
    /\ running
    /\ cyc[task].pc = "sleeping"
    /\ cyc[task].fault
    /\ cyc[task].ret = "False"
    /\ cyc[task].consec = 2
    /\ cyc[Manual].fault
    /\ cyc[Manual].ret = "False"

\* C15: at most one loop task is alive and not cancelled, so no two loop tasks perform
\* cycles, whatever the sequence of start() and stop() calls.
C15_SingleLoop ==
    Cardinality({t \in TaskIds : cyc[t].pc \notin {"none", "cancelled"}}) <= 1

C15_Witness ==
    \E t, u \in TaskIds :
        /\ cyc[t].pc = "cancelled"
        /\ InCycle(u)
        /\ running
        /\ task = u

\* ================================================== identification (1:N)
\* The galleries identify may be given: up to MaxTemplates templates with distinct
\* ids, in any order.  An entry holds, next to the template id, the user the template
\* belongs to and what match_fingerprints returns for it against the probe.
Orders(n) == {ids \in [1..n -> TemplateIds] : \A j, k \in 1..n : ids[j] = ids[k] => j = k}

Gallery(ids, us, ms) ==
    [j \in 1..Len(ids) |-> [template_id |-> ids[j], user_id |-> us[j], match |-> ms[j]]]

\* match_fingerprints: the score bozorth3 printed, or None when the call failed.
match_fingerprints(entry) == entry.match

\* identify lines 156-157
NoBest == [score |-> 0, template_id |-> NoTemplate]

always_replace(score, best_score) == TRUE

\* identify line 164
exceeds_best(score, best_score) == score > best_score

above_threshold(best_score) == best_score > scan.threshold

\* identify line 169
reaches_threshold(best_score) == best_score >= scan.threshold

visit_failed_resets(best, entry) ==
    LET score == match_fingerprints(entry)
    IN  IF score = None THEN NoBest
        ELSE IF exceeds_best(score[1], best.score)
        THEN [score |-> score[1], template_id |-> entry.template_id]
        ELSE best

\* identify lines 160-166: one iteration of the scan
visit(best, entry) ==
    LET score == match_fingerprints(entry)
    IN  IF score = None THEN best
        ELSE IF exceeds_best(score[1], best.score)
        THEN [score |-> score[1], template_id |-> entry.template_id]
        ELSE best

\* identify lines 159-166: the scan from entry k on
RECURSIVE scan_from(_, _, _)
scan_from(gallery, k, best) ==
    IF k > Len(gallery) THEN best
    ELSE scan_from(gallery, k + 1, visit(best, gallery[k]))

\* identify lines 156-174: (template_id, score), or None
identify(gallery) ==
    LET best == scan_from(gallery, 1, NoBest)
    IN  IF reaches_threshold(best.score)
        THEN <<best.template_id, best.score>>
        ELSE None

SyncIdle ==
    /\ report = NoReport
    /\ enabled = FALSE
    /\ url = ""
    /\ punches = <<>>
    /\ serverUp = FALSE
    /\ running = FALSE
    /\ task = NoTask
    /\ cyc = [c \in Procs |-> IF c = Manual THEN Fresh("idle") ELSE Fresh("none")]

IdInit ==
    /\ SyncIdle
    /\ adm = NoAdmin
    /\ \E n \in 0..MaxTemplates :
          \E ids \in Orders(n), us \in [1..n -> Users], ms \in [1..n -> Outcomes] :
              scan = [pc |-> "called", threshold |-> match_threshold,
                      gallery |-> Gallery(ids, us, ms), result |-> None]

\* identify runs to its return: it awaits nothing.
Identify ==
    /\ scan.pc = "called"
    /\ scan' = [scan EXCEPT !.pc = "returned", !.result = identify(scan.gallery)]
    /\ UNCHANGED <<enabled, url, punches, serverUp, running, task, cyc, report, adm>>

IdNext == Identify

IdSpec == IdInit /\ [][IdNext]_vars

\* The entries whose match call succeeded, and the greatest score among them.
Scored(gallery) == {j \in 1..Len(gallery) : gallery[j].match # None}

IsMaxScore(gallery, s) ==
    /\ \E j \in Scored(gallery) : gallery[j].match[1] = s
    /\ \A j \in Scored(gallery) : gallery[j].match[1] <= s

Matched == scan.pc = "returned" /\ scan.result # None

C17_MatchIsMaximum ==
    Matched =>
        /\ IsMaxScore(scan.gallery, scan.result[2])
        /\ \E j \in Scored(scan.gallery) :
              /\ scan.gallery[j].template_id = scan.result[1]
              /\ scan.gallery[j].match[1] = scan.result[2]

\* U1 scores 42 and U2 scores 41, U2's template being scanned first.
C17_Witness ==
    /\ Matched
    /\ Len(scan.gallery) >= 2
    /\ scan.gallery[1].user_id = "U2" /\ scan.gallery[1].match = Some(41)
    /\ scan.gallery[2].user_id = "U1" /\ scan.gallery[2].match = Some(42)
    /\ scan.result = <<scan.gallery[2].template_id, 42>>

\* The templates of the gallery that belong to the user of entry j.
Enrolled(gallery, j) ==
    Cardinality({k \in 1..Len(gallery) : gallery[k].user_id = gallery[j].user_id})

\* Entry j wins over entry k: its user has more templates, or as many and it was
\* created earlier.
Preferred(gallery, j, k) ==
    \/ Enrolled(gallery, j) > Enrolled(gallery, k)
    \/ /\ Enrolled(gallery, j) = Enrolled(gallery, k)
       /\ gallery[j].template_id <= gallery[k].template_id

\* C18: when several templates score the maximum, identify reports the one whose user
\* has more enrolled templates and, among those, the one created first.
C18_TieBreak ==
    Matched =>
        \E j \in Scored(scan.gallery) :
            /\ scan.gallery[j].template_id = scan.result[1]
            /\ scan.gallery[j].match[1] = scan.result[2]
            /\ \A k \in Scored(scan.gallery) :
                  scan.gallery[k].match[1] = scan.result[2] => Preferred(scan.gallery, j, k)

\* The gallery without the templates whose match call failed.
Succeeded(entry) == entry.match # None

\* C19: the result of identify is its result over the gallery with the templates
\* whose match call failed removed.
C19_FailedMatchSkipped ==
    scan.pc = "returned" => scan.result = identify(SelectSeq(scan.gallery, Succeeded))

\* A failed call between a template below the threshold and the winning one.
C19_Witness ==
    /\ Matched
    /\ Len(scan.gallery) = 3
    /\ scan.gallery[1].match = Some(match_threshold + 1)
    /\ scan.gallery[2].match = None
    /\ scan.gallery[3].match = Some(match_threshold + 2)
    /\ scan.result = <<scan.gallery[3].template_id, match_threshold + 2>>

\* C20: when no template reaches match_threshold, the result of identify carries the
\* greatest score seen in the scan.
C20_NoMatchCarriesScore ==
    (/\ scan.pc = "returned"
     /\ Scored(scan.gallery) # {}
     /\ \A j \in Scored(scan.gallery) : scan.gallery[j].match[1] < match_threshold) =>
        /\ scan.result # None
        /\ IsMaxScore(scan.gallery, scan.result[2])

\* ------------------------------------------- any configured match_threshold
\* identify under each match_threshold the configuration file may hold: the
\* configuration is read without validation.
IdConfInit ==
    /\ SyncIdle
    /\ adm = NoAdmin
    /\ \E n \in 0..MaxTemplates, th \in Thresholds :
          \E ids \in Orders(n), us \in [1..n -> Users], ms \in [1..n -> Outcomes] :
              scan = [pc |-> "called", threshold |-> th,
                      gallery |-> Gallery(ids, us, ms), result |-> None]

IdConfSpec == IdConfInit /\ [][IdNext]_vars

\* C26: whenever identify returns a match, its template_id is not None and is the id
\* of a template of the gallery it was given, for every configured match_threshold.
C26_MatchNamesGalleryTemplate ==
    Matched =>
        /\ scan.result[1] # NoTemplate
        /\ \E j \in 1..Len(scan.gallery) : scan.gallery[j].template_id = scan.result[1]

\* ============================================================ get_status
unsynced_count_all(unsynced) == Len(punches)

\* get_status line 160: len(unsynced)
unsynced_count(unsynced) == Len(unsynced)

\* get_status line 154: the outbox read returns.
StatusRead ==
    /\ report.pc \in {"idle", "returned"}
    /\ report' = [pc |-> "read", unsynced |-> get_unsynced_punches(punches, StatusLimit),
                  result |-> <<>>]
    /\ UNCHANGED <<enabled, url, punches, serverUp, running, task, cyc, scan, adm>>

\* get_status lines 156-161: the dict is built from the configuration, self.running
\* as it is now, and the list read before.
StatusReturn ==
    /\ report.pc = "read"
    /\ report' = [pc |-> "returned", unsynced |-> <<>>,
                  result |-> <<[enabled |-> enabled,
                                running |-> running,
                                server_url |-> IF enabled THEN url ELSE "None",
                                unsynced_count |-> unsynced_count(report.unsynced)]>>]
    /\ UNCHANGED <<enabled, url, punches, serverUp, running, task, cyc, scan, adm>>

\* The worker with its loop, start(), stop() and callers of get_status; no manual
\* sync_now.
StatusNext ==
    \/ \E t \in TaskIds : LoopBegin(t)
    \/ \E c \in Procs : ReadOutbox(c)
    \/ \E c \in Procs : EndpointAnswer(c)
    \/ \E c \in Procs : ApplyResponse(c)
    \/ \E c \in Procs : MarkError(c)
    \/ Start
    \/ Stop
    \/ \E t \in TaskIds : DeliverCancel(t)
    \/ CreatePunch
    \/ EndpointFlip
    \/ StatusRead
    \/ StatusReturn

StatusSpec == Init /\ [][StatusNext]_vars

\* A loop task created by start() is alive and stop() has not cancelled it.
LoopAlive == \E t \in TaskIds : cyc[t].pc \notin {"none", "cancelled"}

NotYetSynced(ps) == {p \in 1..Len(ps) : ps[p].status # "synced"}

\* C25: get_status changes no punch; the running flag it reports is true exactly when
\* a loop started by start() has not been stopped; the count it reports is the number
\* of punches not yet synced at its outbox read, capped at the limit of that read.
C25_StatusReadOnlyReport ==
    [][/\ report' # report =>
            /\ punches' = punches
            /\ running' = running
            /\ cyc' = cyc
       /\ (report.pc = "read" /\ report'.pc = "returned") =>
            /\ report'.result[1].running = running
            /\ running <=> LoopAlive
            /\ report'.result[1].unsynced_count = Len(report.unsynced)
       /\ (report' # report /\ report'.pc = "read") =>
            Len(report'.unsynced) = Min(Cardinality(NotYetSynced(punches)), StatusLimit)
      ]_vars

C25_Witness ==
    /\ report.pc = "returned"
    /\ report.result[1].running
    /\ report.result[1].unsynced_count = StatusLimit
    /\ Cardinality(NotYetSynced(punches)) > StatusLimit
    /\ \E p \in PunchIds : punches[p].status = "error"

\* ============================================================= admin API
\* src/checador/api/admin.py.  A handler runs from one await to the next in one step.
\* The Database calls and AuthManager.verify_password are collaborators whose code is
\* not part of the sources modelled; the storage is taken as reliable, except that
\* create_user refuses a second user with an employee code in use.
SyncAndScanIdle ==
    /\ SyncIdle
    /\ scan = NoScan

Clients == DOMAIN adm.req

Resp(op, status, success, message) ==
    [NoResp EXCEPT !.op = op, !.status = status, !.success = success, !.message = message]

\* raise HTTPException(status_code=401) of lines 102, 135, 217, 243
Unauthorized(op) == Resp(op, "401", FALSE, "")

\* The request of client cl ends with response resp.
Done(cl, resp) ==
    [adm.req EXCEPT ![cl] = [IdleRequest EXCEPT !.token = adm.req[cl].token, !.resp = resp]]

Called(cl, pc, token) == [adm.req EXCEPT ![cl] = [IdleRequest EXCEPT !.pc = pc, !.token = token]]

verify_token_always(token) == TRUE

\* verify_token: lines 64-66
verify_token(token) == token \in adm.active_tokens

\* Database.get_user_by_code: the id of the user with this code, or NoUser
get_user_by_code(users, code) ==
    IF \E u \in 1..Len(users) : users[u].employee_code = code
    THEN CHOOSE u \in 1..Len(users) : users[u].employee_code = code
    ELSE NoUser

\* Database.get_user
get_user(users, user_id) == IF user_id \in 1..Len(users) THEN user_id ELSE NoUser

\* start_enrollment lines 109-110: existing = get_user_by_code(...); if existing
code_exists(users, code) == get_user_by_code(users, code) # NoUser

create_user_unchecked(users, code) == FALSE

\* Database.create_user raises when the employee code is in use (User: unique
\* employee code).
create_user_raises(users, code) == get_user_by_code(users, code) # NoUser

low_quality_never(quality) == FALSE

low_quality_or_equal(quality) == quality <= min_quality_score

\* capture_sample line 179
low_quality(quality) == quality < min_quality_score

\* login: lines 70-87.  verify_password accepts the password or not; the token is any
\* value of secrets.token_urlsafe.
login(cl) ==
    /\ adm.req[cl].pc = "idle"
    /\ \E ok \in BOOLEAN, token \in Tokens :
          IF ok
          THEN adm' = [adm EXCEPT !.active_tokens = @ \cup {token},
                                  !.req = Done(cl, [Resp("login", "200", TRUE, "")
                                                        EXCEPT !.token = token])]
          ELSE adm' = [adm EXCEPT !.req = Done(cl, Resp("login", "401", FALSE,
                                                        "Invalid password"))]
    /\ UNCHANGED <<enabled, url, punches, serverUp, running, task, cyc, scan, report>>

\* logout: lines 91-95
logout(cl) ==
    /\ adm.req[cl].pc = "idle"
    /\ \E token \in Tokens :
          adm' = [adm EXCEPT !.active_tokens = @ \ {token},
                             !.req = [Called(cl, "idle", token)
                                        EXCEPT ![cl].resp = Resp("logout", "200", TRUE, "")]]
    /\ UNCHANGED <<enabled, url, punches, serverUp, running, task, cyc, scan, report>>

\* start_enrollment lines 99-109: the token check, then get_user_by_code is awaited.
start_enrollment(cl) ==
    /\ adm.req[cl].pc = "idle"
    /\ \E token \in Tokens, code \in Codes :
          IF ~verify_token(token)
          THEN adm' = [adm EXCEPT !.req = [Called(cl, "idle", token)
                                             EXCEPT ![cl].resp = Unauthorized("start")]]
          ELSE adm' = [adm EXCEPT !.req = [Called(cl, "check", token)
                                             EXCEPT ![cl].employee_code = code]]
    /\ UNCHANGED <<enabled, url, punches, serverUp, running, task, cyc, scan, report>>

\* start_enrollment lines 109-117: get_user_by_code returns; create_user is awaited
\* unless the code exists.
start_check(cl) ==
    /\ adm.req[cl].pc = "check"
    /\ IF code_exists(adm.users, adm.req[cl].employee_code)
       THEN adm' = [adm EXCEPT !.req = Done(cl, Resp("start", "200", FALSE, "already exists"))]
       ELSE adm' = [adm EXCEPT !.req[cl].pc = "create"]
    /\ UNCHANGED <<enabled, url, punches, serverUp, running, task, cyc, scan, report>>

\* start_enrollment lines 117-128: create_user returns the new user or raises.
start_create(cl) ==
    /\ adm.req[cl].pc = "create"
    /\ IF create_user_raises(adm.users, adm.req[cl].employee_code)
       THEN adm' = [adm EXCEPT !.req = Done(cl, Resp("start", "200", FALSE, "error"))]
       ELSE adm' = [adm EXCEPT
                      !.users = Append(@, [employee_code |-> adm.req[cl].employee_code,
                                           active |-> TRUE]),
                      !.req = Done(cl, [Resp("start", "200", TRUE, "User created")
                                          EXCEPT !.user_id = Len(adm.users) + 1])]
    /\ UNCHANGED <<enabled, url, punches, serverUp, running, task, cyc, scan, report>>

\* capture_sample lines 132-144: the token check, then get_user is awaited.
capture_sample(cl) ==
    /\ adm.req[cl].pc = "idle"
    /\ \E token \in Tokens, user_id \in UserIdArgs :
          IF ~verify_token(token)
          THEN adm' = [adm EXCEPT !.req = [Called(cl, "idle", token)
                                             EXCEPT ![cl].resp = Unauthorized("capture")]]
          ELSE adm' = [adm EXCEPT !.req = [Called(cl, "get_user", token)
                                             EXCEPT ![cl].user_id = user_id]]
    /\ UNCHANGED <<enabled, url, punches, serverUp, running, task, cyc, scan, report>>

\* capture_sample lines 144-188: get_user returns; the camera captures or fails, the
\* extractor succeeds with a quality or fails; add_template is awaited for a sample
\* of sufficient quality.
capture_extract(cl) ==
    /\ adm.req[cl].pc = "get_user"
    /\ IF get_user(adm.users, adm.req[cl].user_id) = NoUser
       THEN adm' = [adm EXCEPT !.req = Done(cl, Resp("capture", "200", FALSE, "User not found"))]
       ELSE \E captured \in BOOLEAN, extracted \in BOOLEAN, quality \in Qualities :
              IF ~captured
              THEN adm' = [adm EXCEPT !.req = Done(cl, Resp("capture", "200", FALSE,
                                                            "Capture failed"))]
              ELSE IF ~extracted
              THEN adm' = [adm EXCEPT !.req = Done(cl, Resp("capture", "200", FALSE,
                                                            "Feature extraction failed"))]
              ELSE IF low_quality(quality)
              THEN adm' = [adm EXCEPT !.req = Done(cl, [Resp("capture", "200", FALSE,
                                                             "Low quality fingerprint")
                                                          EXCEPT !.quality = quality])]
              ELSE adm' = [adm EXCEPT !.req[cl].pc = "store", !.req[cl].quality = quality]
    /\ UNCHANGED <<enabled, url, punches, serverUp, running, task, cyc, scan, report>>

\* capture_sample lines 188-201: add_template returns.
capture_store(cl) ==
    /\ adm.req[cl].pc = "store"
    /\ Len(adm.templates) < MaxStored
    /\ adm' = [adm EXCEPT
                 !.templates = Append(@, [user_id |-> adm.req[cl].user_id,
                                          quality |-> adm.req[cl].quality]),
                 !.req = Done(cl, [Resp("capture", "200", TRUE, "Sample captured successfully")
                                     EXCEPT !.quality = adm.req[cl].quality])]
    /\ UNCHANGED <<enabled, url, punches, serverUp, running, task, cyc, scan, report>>

\* list_users lines 214-222: the token check, then the reads are awaited.
list_users(cl) ==
    /\ adm.req[cl].pc = "idle"
    /\ \E token \in Tokens :
          IF ~verify_token(token)
          THEN adm' = [adm EXCEPT !.req = [Called(cl, "idle", token)
                                             EXCEPT ![cl].resp = Unauthorized("list")]]
          ELSE adm' = [adm EXCEPT !.req = Called(cl, "list", token)]
    /\ UNCHANGED <<enabled, url, punches, serverUp, running, task, cyc, scan, report>>

\* list_users lines 222-236: the users and their templates are read and returned.
list_return(cl) ==
    /\ adm.req[cl].pc = "list"
    /\ adm' = [adm EXCEPT !.req = Done(cl, Resp("list", "200", TRUE, ""))]
    /\ UNCHANGED <<enabled, url, punches, serverUp, running, task, cyc, scan, report>>

\* deactivate_user lines 240-248: the token check, then db.deactivate_user is awaited.
deactivate_user(cl) ==
    /\ adm.req[cl].pc = "idle"
    /\ \E token \in Tokens, user_id \in UserIdArgs :
          IF ~verify_token(token)
          THEN adm' = [adm EXCEPT !.req = [Called(cl, "idle", token)
                                             EXCEPT ![cl].resp = Unauthorized("deactivate")]]
          ELSE adm' = [adm EXCEPT !.req = [Called(cl, "deactivate", token)
                                             EXCEPT ![cl].user_id = user_id]]
    /\ UNCHANGED <<enabled, url, punches, serverUp, running, task, cyc, scan, report>>

\* deactivate_user lines 248-251: Database.deactivate_user clears the active flag of
\* the user, if there is one.
deactivate_return(cl) ==
    /\ adm.req[cl].pc = "deactivate"
    /\ adm' = [adm EXCEPT
                 !.users = [u \in 1..Len(@) |->
                              IF u = adm.req[cl].user_id THEN [@[u] EXCEPT !.active = FALSE]
                              ELSE @[u]],
                 !.req = Done(cl, Resp("deactivate", "200", TRUE, ""))]
    /\ UNCHANGED <<enabled, url, punches, serverUp, running, task, cyc, scan, report>>

\* One admin client, an empty database, nobody logged in.
AdminInit ==
    /\ SyncAndScanIdle
    /\ adm = [NoAdmin EXCEPT !.req = <<IdleRequest>>]

AdminNext ==
    \/ \E cl \in Clients : login(cl)
    \/ \E cl \in Clients : logout(cl)
    \/ \E cl \in Clients : start_enrollment(cl)
    \/ \E cl \in Clients : start_check(cl)
    \/ \E cl \in Clients : start_create(cl)
    \/ \E cl \in Clients : capture_sample(cl)
    \/ \E cl \in Clients : capture_extract(cl)
    \/ \E cl \in Clients : capture_store(cl)
    \/ \E cl \in Clients : list_users(cl)
    \/ \E cl \in Clients : list_return(cl)
    \/ \E cl \in Clients : deactivate_user(cl)
    \/ \E cl \in Clients : deactivate_return(cl)

AdminSpec == AdminInit /\ [][AdminNext]_vars

\* ------------------------------------------------------------ enrollment claims
\* The accepted-template count of a user: the templates stored for it.
template_count(templates, user_id) ==
    Cardinality({t \in 1..Len(templates) : templates[t].user_id = user_id})

FailedCapture ==
    {"User not found", "Capture failed", "Feature extraction failed",
     "Low quality fingerprint"}

\* The step in which the capture_sample request of client cl returns.
CaptureReturns(cl) ==
    /\ adm.req[cl].pc \in {"get_user", "store"}
    /\ adm'.req[cl].pc = "idle"

C22_AcceptedSampleStored ==
    [][ \A cl \in Clients :
            /\ (adm.req[cl].pc = "get_user" /\ adm'.req[cl].pc = "store") =>
                  /\ adm'.req[cl].quality >= min_quality_score
                  /\ adm'.req[cl].user_id = adm.req[cl].user_id
            /\ (CaptureReturns(cl) /\ adm'.req[cl].resp.message = "Low quality fingerprint") =>
                  adm'.req[cl].resp.quality < min_quality_score
            /\ (adm.req[cl].pc = "store" /\ adm'.req[cl] # adm.req[cl]) =>
                  /\ adm'.templates = Append(adm.templates,
                                             [user_id |-> adm.req[cl].user_id,
                                              quality |-> adm.req[cl].quality])
                  /\ adm'.req[cl].resp.success
                  /\ adm'.req[cl].resp.quality = adm.req[cl].quality
      ]_vars

\* A sample of quality exactly min_quality_score was stored and answered with success.
C22_Witness ==
    \E cl \in Clients :
        /\ adm.req[cl].resp.op = "capture"
        /\ adm.req[cl].resp.success
        /\ adm.req[cl].resp.quality = min_quality_score
        /\ Len(adm.templates) > 0
        /\ adm.templates[Len(adm.templates)].quality = min_quality_score

\* C23: the accepted-template count of every user stays within 0..enrollment_samples.
C23_EnrollmentCountBounded ==
    \A u \in UserIdArgs : template_count(adm.templates, u) <= enrollment_samples

\* ------------------------------------------------------------ concurrent enrollment starts
\* Two admin clients whose start_enrollment requests interleave at the awaits.
UsersInit ==
    /\ SyncAndScanIdle
    /\ adm = [NoAdmin EXCEPT !.req = <<IdleRequest, IdleRequest>>]

UsersNext ==
    \/ \E cl \in Clients : login(cl)
    \/ \E cl \in Clients : logout(cl)
    \/ \E cl \in Clients : start_enrollment(cl)
    \/ \E cl \in Clients : start_check(cl)
    \/ \E cl \in Clients : start_create(cl)

UsersSpec == UsersInit /\ [][UsersNext]_vars

UniqueCodes(users) ==
    \A u, v \in 1..Len(users) : users[u].employee_code = users[v].employee_code => u = v

SessionCall(cl) ==
    /\ adm'.req[cl].pc = "idle"
    /\ adm'.req[cl].resp.op \in {"login", "logout"}

\* C27: active_tokens changes only by a successful login, which adds the token it
\* returns, or by a logout, which removes its token; a failed login returns no token
\* and adds none; enroll start, enroll capture, list users and deactivate user are
\* admitted exactly when their token is in active_tokens, and otherwise are answered
\* 401 without changing a user or a template.
C27_SessionTokens ==
    [][ \A cl \in Clients :
            (adm.req[cl].pc = "idle" /\ adm'.req[cl] # adm.req[cl]) =>
                /\ (adm'.req[cl].resp.op = "login" /\ adm'.req[cl].resp.success) =>
                      /\ adm'.req[cl].resp.token \in Tokens
                      /\ adm'.active_tokens = adm.active_tokens \cup {adm'.req[cl].resp.token}
                /\ (adm'.req[cl].resp.op = "login" /\ ~adm'.req[cl].resp.success) =>
                      /\ adm'.req[cl].resp.token = ""
                      /\ adm'.req[cl].resp.status = "401"
                      /\ adm'.active_tokens = adm.active_tokens
                /\ (adm'.req[cl].pc = "idle" /\ adm'.req[cl].resp.op = "logout") =>
                      adm'.active_tokens = adm.active_tokens \ {adm'.req[cl].token}
                /\ ~SessionCall(cl) =>
                      /\ adm'.active_tokens = adm.active_tokens
                      /\ IF adm'.req[cl].token \in adm.active_tokens
                         THEN adm'.req[cl].pc # "idle"
                         ELSE /\ adm'.req[cl].pc = "idle"
                              /\ adm'.req[cl].resp.status = "401"
                              /\ ~adm'.req[cl].resp.success
                              /\ adm'.users = adm.users
                              /\ adm'.templates = adm.templates
      ]_vars

\* After a login that admitted the creation of a user and the logout of every token,
\* a deactivation of that user is answered 401 and the user is still active.
C27_Witness ==
    \E cl \in Clients :
        /\ adm.active_tokens = {}
        /\ adm.req[cl].token \in Tokens
        /\ adm.req[cl].resp.op = "deactivate"
        /\ adm.req[cl].resp.status = "401"
        /\ Len(adm.users) > 0
        /\ \A u \in 1..Len(adm.users) : adm.users[u].active

====
